---- MODULE Spec2Model ----
(***************************************************************************)
(* Model of src/depth_sorter.ts: the DepthSorter of gaussian-splatting-web. *)
(*                                                                         *)
(* A DepthSorter owns GPU buffers for nElements primitives, padded to      *)
(* nPadded = nextPowerOfTwo(nElements) depth slots.  sort(projMatrix)      *)
(* writes the matrix, dispatches numThreads invocations of the depth       *)
(* kernel, runs BitonicSorter.argsort over the depth buffer and dispatches *)
(* numThreads invocations of the index expansion kernel.                   *)
(*                                                                         *)
(* Buffers are functions over 0..len-1.  WebGPU zero-initialises buffers.  *)
(* f32 depths are modelled by integers (all values used are exactly        *)
(* representable in f32).  BitonicSorter lives in ./bitonic, which is not  *)
(* part of the sources at hand; it is modelled from the specification.     *)
(***************************************************************************)
EXTENDS Integers, FiniteSets, Sequences, TLC

\* ---------------------------------------------------------------- bounds
MaxN == 4          \* largest primitive count explored by Spec
MaxThreads == 3    \* largest numThreads explored (the code uses 1024)
MaxX == 130        \* largest argument of nextPowerOfTwo explored by SpecNP
MaxFaultN == 2     \* largest primitive count explored by SpecFault
MaxKey == 2        \* depth keys explored by SpecSort are 0..MaxKey

\* ------------------------------------------------------- program constants
Sentinel == 1000000      \* depths[i] = 1000000; // pad with +inf
VertsPerQuad == 6        \* for (var vertex = 0u; vertex < 6; vertex++)

\* ------------------------------------------------------------- inputs
\* vec3 positions a loader may hand over
PosPool == { <<0, 0, 1>>, <<0, 0, 3>>, <<1, 0, 5>> }

\* 4x4 matrices, as WGSL sees them: M[c] is column c, M[c][r] its row r
\* (1-based here).  Identity, a z flip, and a z scale that exceeds 1000000.
MatIdentity == << <<1,0,0,0>>, <<0,1,0,0>>, <<0,0,1,0>>, <<0,0,0,1>> >>
MatFlipZ    == << <<1,0,0,0>>, <<0,1,0,0>>, <<0,0,-1,0>>, <<0,0,0,1>> >>
MatScaleZ   == << <<1,0,0,0>>, <<0,1,0,0>>, <<0,0,400000,0>>, <<0,0,0,1>> >>
Matrices == { MatIdentity, MatFlipZ, MatScaleZ }
MatZero == << <<0,0,0,0>>, <<0,0,0,0>>, <<0,0,0,0>>, <<0,0,0,0>> >>

VARIABLES
    nElements,        \* this.nElements
    nPadded,          \* this.nPadded
    numThreads,       \* this.numThreads
    sorterN,          \* length handed to new BitonicSorter(context, nPadded)
    positionsBuffer,  \* [0..nElements-1 -> vec3]
    projMatrixBuffer, \* uniform mat4x4
    depthBuffer,      \* [0..nPadded-1 -> depth]
    indicesBuffer,    \* this.sorter.indicesBuffer, [0..sorterN-1 -> index]
    indexBuffer,      \* [0..6*nElements-1 -> u32]
    pc,               \* where the host is inside sort()
    depthWrites,      \* stores issued by the last depth dispatch: <<thread, i, value>>
    returned,         \* what the last sort() call returned
    faulted,          \* a dispatch of the current sort() call hit a device fault
    prevMatrix,       \* projMatrixBuffer before this sort() call (MatZero before the first)
    prevIndexBuffer,  \* indexBuffer at the end of the previous completed call
    objects,          \* buffer handles held by the fields, and the two bind groups
    submitted,        \* what this sort() call has put on the queue, in order
    indexWrites       \* stores issued by the last expansion dispatch: <<thread, i>>

vars == << nElements, nPadded, numThreads, sorterN, positionsBuffer,
           projMatrixBuffer, depthBuffer, indicesBuffer, indexBuffer, pc,
           depthWrites, returned, faulted, prevMatrix, prevIndexBuffer,
           objects, submitted, indexWrites >>

\* ------------------------------------------------------------ arithmetic
RECURSIVE Pow2(_)
Pow2(e) == IF e <= 0 THEN 1 ELSE 2 * Pow2(e - 1)

\* Math.ceil(Math.log2(x)) for an integer x >= 1
RECURSIVE CeilLog2(_)
CeilLog2(x) == IF x <= 1 THEN 0 ELSE 1 + CeilLog2((x + 1) \div 2)

\* nextPowerOfTwo with Math.floor in place of Math.ceil
nextPowerOfTwo_Floor(x) == IF x = 0 THEN 0 ELSE Pow2(CeilLog2(x + 1) - 1)

\* Math.pow(2, Math.ceil(Math.log2(x))).  Math.log2(0) is -Infinity, its
\* ceil is -Infinity and Math.pow(2, -Infinity) is 0.
nextPowerOfTwo(x) == IF x = 0 THEN 0 ELSE Pow2(CeilLog2(x))

\* Math.ceil(a / b) for a >= 0, b >= 1
CeilDiv(a, b) == (a + b - 1) \div b

\* const itemsPerThread = Math.ceil(this.nElements / this.numThreads)
itemsPerThread == CeilDiv(nElements, numThreads)

RECURSIVE IsPowerOfTwo(_)
IsPowerOfTwo(x) == x >= 1 /\ (x = 1 \/ (x % 2 = 0 /\ IsPowerOfTwo(x \div 2)))

\* a zero-initialised buffer of n words
ZeroBuffer(n) == [i \in 0..(n - 1) |-> 0]

\* ------------------------------------------------------- device semantics
\* A dispatch of nThreads invocations issues a set of stores
\* <<thread, index, value>> on a buffer of `len` words holding `old`.
\* Stores of distinct invocations are unordered: when several invocations
\* store to one slot, any of them can be the last (the invocation closest
\* after `first` in a cyclic order is taken as the last writer).
\* WGSL: an out-of-bounds store is either not executed or lands on some
\* in-bounds location of the same binding; R is the set of slots on which a
\* redirected out-of-bounds store lands last, v the value it carries.
InBounds(stores, len) == { s \in stores : s[2] < len }
OutOfBounds(stores, len) == { s \in stores : s[2] >= len }

Redirections(stores, len) ==
    IF OutOfBounds(stores, len) = {} THEN { {} }
    ELSE { R \in SUBSET (0..(len - 1)) :
             Cardinality(R) <= Cardinality(OutOfBounds(stores, len)) }

LastStore(S, first, nThreads) ==
    CHOOSE s \in S : \A u \in S :
        (s[1] - first) % nThreads <= (u[1] - first) % nThreads

DispatchOutcomes(old, len, stores, nThreads) ==
    LET inb  == InBounds(stores, len)
        oobv == { s[3] : s \in OutOfBounds(stores, len) }
    IN  { [j \in 0..(len - 1) |->
             LET Sj == { s \in inb : s[2] = j }
             IN  IF j \in R THEN v
                 ELSE IF Sj # {} THEN LastStore(Sj, first, nThreads)[3]
                 ELSE old[j]] :
            R \in Redirections(stores, len),
            v \in (IF oobv = {} THEN {0} ELSE oobv),
            first \in 0..(nThreads - 1) }

\* --------------------------------------------------- computeDepthShader
\* let projPos = projMatrix * vec4<f32>(pos, 1.0); projPos.z
ProjZ(M, pos) ==
    M[1][3] * pos[1] + M[2][3] * pos[2] + M[3][3] * pos[3] + M[4][3]

\* the loop of one invocation: i from id*itemsPerThread up to
\* (id+1)*itemsPerThread - 1
ChunkOf(id) == (id * itemsPerThread)..((id + 1) * itemsPerThread - 1)

\* computeDepthShader whose loop also stops at the padded length
computeDepthShader_UpToPadded(id) ==
    { <<id, i, IF i >= nElements
               THEN Sentinel
               ELSE ProjZ(projMatrixBuffer, positionsBuffer[i])>> :
        i \in { c \in ChunkOf(id) : c < nPadded } }

computeDepthShader(id) ==
    { <<id, i, IF i >= nElements
               THEN Sentinel
               ELSE ProjZ(projMatrixBuffer, positionsBuffer[i])>> :
        i \in ChunkOf(id) }

\* passEncoder.dispatchWorkgroups(this.numThreads), workgroup_size(1)
DepthStores == UNION { computeDepthShader(id) : id \in 0..(numThreads - 1) }

\* ------------------------------------------------ copyToIndexBufferShader
\* copyToIndexBufferShader storing the rank i in place of indices[i]
copyToIndexBufferShader_Rank(id) ==
    { <<id, i * VertsPerQuad + vertex, i * VertsPerQuad + vertex>> :
        i \in { c \in ChunkOf(id) : c < nElements },
        vertex \in 0..(VertsPerQuad - 1) }

\* copyToIndexBufferShader with the vertex loop one short
copyToIndexBufferShader_FiveVerts(id) ==
    { <<id, i * VertsPerQuad + vertex, indicesBuffer[i] * VertsPerQuad + vertex>> :
        i \in { c \in ChunkOf(id) : c < nElements },
        vertex \in 0..(VertsPerQuad - 2) }

\* the loop breaks at the first i >= numQuadsUnpadded
copyToIndexBufferShader(id) ==
    { <<id, i * VertsPerQuad + vertex, indicesBuffer[i] * VertsPerQuad + vertex>> :
        i \in { c \in ChunkOf(id) : c < nElements },
        vertex \in 0..(VertsPerQuad - 1) }

CopyStores == UNION { copyToIndexBufferShader(id) : id \in 0..(numThreads - 1) }

\* ------------------------------------------- BitonicSorter (from the spec)
\* CompareExchange with every block sorted ascending (no alternation)
CompareExchange_AllAscending(idx, keys, k, j) ==
    [i \in DOMAIN idx |->
        LET l   == IF (i \div j) % 2 = 0 THEN i + j ELSE i - j
            lo  == IF i < l THEN i ELSE l
            hi  == IF i < l THEN l ELSE i
            swap == keys[idx[lo]] > keys[idx[hi]]
        IN  IF swap THEN idx[l] ELSE idx[i]]

\* One compare-exchange pass of the network at block size k and stride j,
\* over the index payloads; keys are read through the payload.
Partner(i, j) == IF (i \div j) % 2 = 0 THEN i + j ELSE i - j

CompareExchange(idx, keys, k, j) ==
    [i \in DOMAIN idx |->
        LET l   == Partner(i, j)
            lo  == IF i < l THEN i ELSE l
            hi  == IF i < l THEN l ELSE i
            asc == (lo \div k) % 2 = 0
            a   == keys[idx[lo]]
            b   == keys[idx[hi]]
            swap == IF asc THEN a > b ELSE a < b
        IN  IF swap THEN idx[l] ELSE idx[i]]

RECURSIVE BitonicPasses(_, _, _, _, _)
BitonicPasses(idx, keys, n, k, j) ==
    IF k > n THEN idx
    ELSE LET nxt == CompareExchange(idx, keys, k, j)
         IN  IF j = 1 THEN BitonicPasses(nxt, keys, n, 2 * k, k)
             ELSE BitonicPasses(nxt, keys, n, k, j \div 2)

\* argsort(values): the index payloads start as the identity and every pass
\* completes before the next starts.  The keys are only read: the result is
\* a permutation that indexes the key array as it was handed over.
argsort(keys, n) == BitonicPasses([i \in 0..(n - 1) |-> i], keys, n, 2, 1)

\* ------------------------------------------------------ GPU objects
\* The buffers the constructor creates (named by their labels), the buffer
\* the sort engine exposes, and the bind groups built over them.
ConstructedObjects ==
    [ positionsBuffer  |-> "depthSorter.positionsBuffer",
      depthBuffer      |-> "depthSorter.depthBuffer",
      projMatrixBuffer |-> "depthSorter.projMatrixBuffer",
      indexBuffer      |-> "depthSorter.indexBuffer",
      sorterIndicesBuffer |-> "sorter.indicesBuffer",
      computeDepthBindGroup |->
          << "depthSorter.positionsBuffer", "depthSorter.depthBuffer",
             "depthSorter.projMatrixBuffer" >>,
      copyToIndexBufferBindGroup |->
          << "sorter.indicesBuffer", "depthSorter.indexBuffer" >> ]

\* ----------------------------------------------------------------- Init
\* the state the constructor leaves behind
Init ==
    /\ nElements \in 0..MaxN
    /\ numThreads \in 1..MaxThreads
    /\ nPadded = nextPowerOfTwo(nElements)
    /\ sorterN = nPadded
    /\ positionsBuffer \in [0..(nElements - 1) -> PosPool]
    /\ projMatrixBuffer = MatZero
    /\ depthBuffer = ZeroBuffer(nPadded)
    /\ indicesBuffer = ZeroBuffer(sorterN)
    /\ indexBuffer = ZeroBuffer(nElements * VertsPerQuad)
    /\ pc = "idle"
    /\ depthWrites = {}
    /\ returned = "nothing"
    /\ faulted = FALSE
    /\ prevMatrix = MatZero
    /\ prevIndexBuffer = indexBuffer
    /\ objects = ConstructedObjects
    /\ submitted = << >>
    /\ indexWrites = {}

\* -------------------------------------------------------------- sort()
\* queue.writeBuffer(this.projMatrixBuffer, ...)
WriteProjMatrix ==
    /\ pc \in {"idle", "done"}
    /\ \E M \in Matrices : projMatrixBuffer' = M
    /\ prevMatrix' = projMatrixBuffer
    /\ prevIndexBuffer' = indexBuffer
    /\ faulted' = FALSE
    /\ returned' = "nothing"
    /\ pc' = "depth"
    /\ submitted' = << <<"writeBuffer", projMatrixBuffer'>> >>
    /\ UNCHANGED << nElements, nPadded, numThreads, sorterN, positionsBuffer,
                    depthBuffer, indicesBuffer, indexBuffer, depthWrites,
                    objects, indexWrites >>

\* ComputeDepth after which sort() forgets the argsort call
ComputeDepth_NoArgsort ==
    /\ pc = "depth"
    /\ depthBuffer' \in DispatchOutcomes(depthBuffer, nPadded, DepthStores, numThreads)
    /\ depthWrites' = DepthStores
    /\ submitted' = Append(submitted, <<"computeDepth", projMatrixBuffer>>)
    /\ pc' = "copy"
    /\ UNCHANGED << nElements, nPadded, numThreads, sorterN, positionsBuffer,
                    projMatrixBuffer, indicesBuffer, indexBuffer, returned,
                    faulted, prevMatrix, prevIndexBuffer, objects, indexWrites >>

\* the compute pass of computeDepthPipeline
ComputeDepth ==
    /\ pc = "depth"
    /\ depthBuffer' \in DispatchOutcomes(depthBuffer, nPadded, DepthStores, numThreads)
    /\ depthWrites' = DepthStores
    /\ submitted' = Append(submitted, <<"computeDepth", projMatrixBuffer>>)
    /\ pc' = "argsort"
    /\ UNCHANGED << nElements, nPadded, numThreads, sorterN, positionsBuffer,
                    projMatrixBuffer, indicesBuffer, indexBuffer, returned,
                    faulted, prevMatrix, prevIndexBuffer, objects, indexWrites >>

\* this.sorter.argsort(this.depthBuffer)
Argsort ==
    /\ pc = "argsort"
    /\ indicesBuffer' = argsort(depthBuffer, sorterN)
    /\ submitted' = Append(submitted, <<"argsort", depthBuffer>>)
    /\ pc' = "copy"
    /\ UNCHANGED << nElements, nPadded, numThreads, sorterN, positionsBuffer,
                    projMatrixBuffer, depthBuffer, indexBuffer, depthWrites,
                    returned, faulted, prevMatrix, prevIndexBuffer, objects,
                    indexWrites >>

\* CopyToIndexBuffer that allocates a new index buffer on every call
CopyToIndexBuffer_Realloc ==
    /\ pc = "copy"
    /\ indexBuffer' \in DispatchOutcomes(indexBuffer, nElements * VertsPerQuad,
                                         CopyStores, numThreads)
    /\ indexWrites' = { <<s[1], s[2]>> : s \in CopyStores }
    /\ submitted' = Append(submitted, <<"copyToIndexBuffer", indicesBuffer>>)
    /\ returned' = "indexBuffer"
    /\ pc' = "done"
    /\ objects' = [objects EXCEPT !.indexBuffer = "depthSorter.indexBuffer.new"]
    /\ UNCHANGED << nElements, nPadded, numThreads, sorterN, positionsBuffer,
                    projMatrixBuffer, depthBuffer, indicesBuffer, depthWrites,
                    faulted, prevMatrix, prevIndexBuffer >>

\* CopyToIndexBuffer whose kernel also stores the rank into indices
CopyToIndexBuffer_WritesIndices ==
    /\ pc = "copy"
    /\ indexBuffer' \in DispatchOutcomes(indexBuffer, nElements * VertsPerQuad,
                                         CopyStores, numThreads)
    /\ indexWrites' = { <<s[1], s[2]>> : s \in CopyStores }
    /\ submitted' = Append(submitted, <<"copyToIndexBuffer", indicesBuffer>>)
    /\ returned' = "indexBuffer"
    /\ pc' = "done"
    /\ indicesBuffer' = [i \in DOMAIN indicesBuffer |-> i]
    /\ UNCHANGED << nElements, nPadded, numThreads, sorterN, positionsBuffer,
                    projMatrixBuffer, depthBuffer, depthWrites,
                    faulted, prevMatrix, prevIndexBuffer, objects >>

\* the compute pass of copyToIndexBufferPipeline; return this.indexBuffer
CopyToIndexBuffer ==
    /\ pc = "copy"
    /\ indexBuffer' \in DispatchOutcomes(indexBuffer, nElements * VertsPerQuad,
                                         CopyStores, numThreads)
    /\ indexWrites' = { <<s[1], s[2]>> : s \in CopyStores }
    /\ submitted' = Append(submitted, <<"copyToIndexBuffer", indicesBuffer>>)
    /\ returned' = "indexBuffer"
    /\ pc' = "done"
    /\ UNCHANGED << nElements, nPadded, numThreads, sorterN, positionsBuffer,
                    projMatrixBuffer, depthBuffer, indicesBuffer, depthWrites,
                    faulted, prevMatrix, prevIndexBuffer, objects >>

Next == WriteProjMatrix \/ ComputeDepth \/ Argsort \/ CopyToIndexBuffer

Spec == Init /\ [][Next]_vars

\* ------------------------------------------------------- device faults
\* A dispatch that hits a device execution fault leaves its buffers as they
\* were.  The host code has no error scope and no check: it goes on to the
\* next stage, and after the last one returns this.indexBuffer.
DeviceFault ==
    /\ pc \in {"depth", "argsort", "copy"}
    /\ faulted' = TRUE
    /\ pc' = CASE pc = "depth" -> "argsort"
               [] pc = "argsort" -> "copy"
               [] OTHER -> "done"
    /\ returned' = IF pc = "copy" THEN "indexBuffer" ELSE returned
    /\ depthWrites' = IF pc = "depth" THEN {} ELSE depthWrites
    /\ indexWrites' = IF pc = "copy" THEN {} ELSE indexWrites
    /\ submitted' = Append(submitted,
                           CASE pc = "depth" -> <<"computeDepth", projMatrixBuffer>>
                             [] pc = "argsort" -> <<"argsort", depthBuffer>>
                             [] OTHER -> <<"copyToIndexBuffer", indicesBuffer>>)
    /\ UNCHANGED << nElements, nPadded, numThreads, sorterN, positionsBuffer,
                    projMatrixBuffer, depthBuffer, indicesBuffer, indexBuffer,
                    prevMatrix, prevIndexBuffer, objects >>

NextFault == Next \/ DeviceFault

InitFault == Init /\ nElements <= MaxFaultN

SpecFault == InitFault /\ [][NextFault]_vars

\* --------------------------------------------- the constructor's padding
\* before the constructor has run: only the primitive count is known
InitNP ==
    /\ nElements \in 0..MaxX
    /\ numThreads = 1
    /\ nPadded = 0
    /\ sorterN = 0
    /\ positionsBuffer = ZeroBuffer(0)
    /\ projMatrixBuffer = MatZero
    /\ depthBuffer = ZeroBuffer(0)
    /\ indicesBuffer = ZeroBuffer(0)
    /\ indexBuffer = ZeroBuffer(0)
    /\ pc = "new"
    /\ depthWrites = {}
    /\ returned = "nothing"
    /\ faulted = FALSE
    /\ prevMatrix = MatZero
    /\ prevIndexBuffer = ZeroBuffer(0)
    /\ objects = ConstructedObjects
    /\ submitted = << >>
    /\ indexWrites = {}

\* this.nPadded = nextPowerOfTwo(this.nElements);
\* this.sorter = new BitonicSorter(this.context, this.nPadded)
ConstructPadding ==
    /\ pc = "new"
    /\ nPadded' = nextPowerOfTwo(nElements)
    /\ sorterN' = nPadded'
    /\ pc' = "padded"
    /\ UNCHANGED << nElements, numThreads, positionsBuffer, projMatrixBuffer,
                    depthBuffer, indicesBuffer, indexBuffer, depthWrites,
                    returned, faulted, prevMatrix, prevIndexBuffer, objects,
                    submitted, indexWrites >>

NextNP == ConstructPadding

SpecNP == InitNP /\ [][NextNP]_vars

\* ------------------------------------------------ the sort engine alone
\* power-of-two lengths the sort engine is run on
SortLengths == { 1, 2, 4, 8 }

\* a sorter of length P that has just been handed an arbitrary key array
InitSort ==
    /\ sorterN \in SortLengths
    /\ nPadded = sorterN
    /\ nElements = sorterN
    /\ numThreads = 1
    /\ positionsBuffer = [i \in 0..(nElements - 1) |-> <<0, 0, 1>>]
    /\ projMatrixBuffer = MatIdentity
    /\ depthBuffer \in [0..(sorterN - 1) -> 0..MaxKey]
    /\ indicesBuffer = ZeroBuffer(sorterN)
    /\ indexBuffer = ZeroBuffer(nElements * VertsPerQuad)
    /\ pc = "argsort"
    /\ depthWrites = {}
    /\ returned = "nothing"
    /\ faulted = FALSE
    /\ prevMatrix = MatZero
    /\ prevIndexBuffer = indexBuffer
    /\ objects = ConstructedObjects
    /\ submitted = << >>
    /\ indexWrites = {}

NextSort == Argsort

SpecSort == InitSort /\ [][NextSort]_vars

\* ================================================================ claims
\* projected depth of primitive i under the matrix of the current call
DepthOf(i) == ProjZ(projMatrixBuffer, positionsBuffer[i])

\* the primitive drawn at rank k according to the expanded index buffer
QuadAt(k) == indexBuffer[k * VertsPerQuad] \div VertsPerQuad

\* C1: after a sort call the quads of the expanded index buffer enumerate
\* every primitive of [0,N) exactly once, in non-decreasing projected depth.
C1_EndToEndOrder ==
    (pc = "done" /\ nElements >= 1) =>
        /\ { QuadAt(k) : k \in 0..(nElements - 1) } = 0..(nElements - 1)
        /\ \A k \in 0..(nElements - 2) : DepthOf(QuadAt(k)) <= DepthOf(QuadAt(k + 1))

\* C2: when N < P, after projection and argsort every padding slot index
\* sits at a rank >= N, so ranks [0,N) hold only real primitive indices.
C2_SentinelContainment ==
    (pc \in {"copy", "done"} /\ nElements < nPadded) =>
        \A r \in 0..(nElements - 1) : indicesBuffer[r] < nElements

\* C3: after the projection dispatch slots [0,N) hold the projected z of
\* their position and slots [N,P) hold the sentinel; none keeps an old value.
C3_ProjectionFillsAllSlots ==
    (pc = "argsort" /\ nElements >= 1) =>
        /\ \A i \in 0..(nElements - 1) : depthBuffer[i] = DepthOf(i)
        /\ \A i \in nElements..(nPadded - 1) : depthBuffer[i] = Sentinel

\* C4: the projection dispatch issues no store to a depth index >= P.
C4_ProjectionNeverOverWrites ==
    pc = "argsort" => \A w \in depthWrites : w[2] < nPadded

\* C5: after the expansion dispatch, entry 6k+v of the index buffer is
\* 6*permutation[k]+v for every k in [0,N) and v in [0,6).
C5_ExpansionCorrect ==
    pc = "done" =>
        \A k \in 0..(nElements - 1) : \A v \in 0..(VertsPerQuad - 1) :
            indexBuffer[VertsPerQuad * k + v] = VertsPerQuad * indicesBuffer[k] + v

\* C5 witness: an expansion over several threads of a permutation that is
\* not the identity on its first N ranks
C5_Witness ==
    /\ pc = "done"
    /\ nElements = 3
    /\ numThreads = 2
    /\ indicesBuffer[0] = 1 /\ indicesBuffer[1] = 2 /\ indicesBuffer[2] = 0
    /\ indexBuffer[0] = 6 /\ indexBuffer[17] = 5

\* C6: every entry of the returned index buffer lies in [0, 6N).
C6_OutputRange ==
    pc = "done" =>
        \A j \in DOMAIN indexBuffer :
            indexBuffer[j] >= 0 /\ indexBuffer[j] < VertsPerQuad * nElements

\* C7: for N >= 1, nextPowerOfTwo(N) is the smallest power of two >= N,
\* and equals N when N is a power of two.
C7_PaddingInvariant ==
    (pc = "padded" /\ nElements >= 1) =>
        /\ IsPowerOfTwo(nPadded)
        /\ nPadded >= nElements
        /\ \A q \in nElements..(nPadded - 1) : ~IsPowerOfTwo(q)
        /\ (IsPowerOfTwo(nElements) => nPadded = nElements)

\* C7 witness: the constructor has padded a count that is no power of two
C7_Witness ==
    /\ pc = "padded"
    /\ nElements = 100
    /\ nPadded = 128

\* C8: with N = 0 the padded length is 1, and 1 is the length handed to
\* the sort engine.
C8_ZeroPadsToOne ==
    (pc = "padded" /\ nElements = 0) => (nPadded = 1 /\ sorterN = 1)

\* C9: two consecutive sort calls with the same matrix leave the same
\* expanded index buffer.
C9_Idempotence ==
    (pc = "done" /\ prevMatrix = projMatrixBuffer) =>
        indexBuffer = prevIndexBuffer

\* C10: a sort call in which a dispatch faulted ends in a failure outcome
\* and does not return the index buffer.
C10_FaultNotSilent ==
    (pc = "done" /\ faulted) => returned = "failure"

\* C11: after argsort over a power-of-two number of keys the permutation is
\* a bijection on [0,P) and reads the keys handed over in non-decreasing order.
C11_SortEngineCorrect ==
    (pc = "copy" /\ IsPowerOfTwo(sorterN)) =>
        /\ DOMAIN indicesBuffer = 0..(sorterN - 1)
        /\ { indicesBuffer[i] : i \in 0..(sorterN - 1) } = 0..(sorterN - 1)
        /\ \A i \in 0..(sorterN - 2) :
               depthBuffer[indicesBuffer[i]] <= depthBuffer[indicesBuffer[i + 1]]

\* C11 witness: eight keys that were not in order have been sorted
C11_Witness ==
    /\ pc = "copy"
    /\ sorterN = 8
    /\ depthBuffer = [i \in 0..7 |-> IF i \in {0, 3, 5} THEN 2 ELSE IF i \in {1, 6} THEN 0 ELSE 1]
    /\ indicesBuffer[0] \in {1, 6}
    /\ indicesBuffer[7] \in {0, 3, 5}

\* C12: across sort calls nElements, nPadded, the buffer handles, both bind
\* groups and the positions are unchanged; every call returns the index
\* buffer created by the constructor, and the expansion's input binding is
\* the sort engine's indices buffer bound at construction.
StableResourcesStep ==
    pc \in {"idle", "depth", "argsort", "copy", "done"} =>
        /\ nElements' = nElements
        /\ nPadded' = nPadded
        /\ positionsBuffer' = positionsBuffer
        /\ objects' = objects
        /\ objects'.copyToIndexBufferBindGroup[1] = ConstructedObjects.sorterIndicesBuffer
        /\ (pc' = "done" => objects'[returned'] = ConstructedObjects.indexBuffer)

C12_StableResources == [][StableResourcesStep]_vars

\* C12 witness: a second sort call has returned on an instance with primitives
C12_Witness ==
    /\ pc = "done"
    /\ prevMatrix # MatZero
    /\ nElements = 3
    /\ returned = "indexBuffer"
    /\ objects = ConstructedObjects

\* C13: a sort call that returns without a fault has submitted, in this
\* order and once each, the matrix write, the projection (reading this
\* call's matrix), argsort (reading this call's depths) and the expansion
\* (reading this call's permutation).
C13_StageOrdering ==
    (pc = "done" /\ ~faulted) =>
        submitted = << <<"writeBuffer", projMatrixBuffer>>,
                       <<"computeDepth", projMatrixBuffer>>,
                       <<"argsort", depthBuffer>>,
                       <<"copyToIndexBuffer", indicesBuffer>> >>

\* C13 witness: a fault-free second call on an instance with two primitives
C13_Witness ==
    /\ pc = "done"
    /\ ~faulted
    /\ prevMatrix # MatZero
    /\ nElements = 2
    /\ Len(submitted) = 4

\* C14: the expansion dispatch stores to every index of [0,6N) exactly once
\* and to no other index (nothing at all for N = 0).
C14_ExpansionWritesExactly6N ==
    pc = "done" =>
        /\ { w[2] : w \in indexWrites } = 0..(VertsPerQuad * nElements - 1)
        /\ Cardinality(indexWrites) = VertsPerQuad * nElements

\* C14 witness: three primitives over two threads; the second thread's chunk
\* [2,4) runs past N and stops
C14_Witness ==
    /\ pc = "done"
    /\ nElements = 3
    /\ numThreads = 2
    /\ Cardinality(indexWrites) = 18
    /\ <<1, 17>> \in indexWrites

\* C15: in both dispatches the threads' chunks are pairwise disjoint, no two
\* threads store to one slot, the buffers read are not the buffer written,
\* and the buffer left behind does not depend on the interleaving.
C15_RaceFreedom ==
    /\ \A t, u \in 0..(numThreads - 1) :
           t # u => ChunkOf(t) \cap ChunkOf(u) = {}
    /\ objects.computeDepthBindGroup[1] # objects.computeDepthBindGroup[2]
    /\ objects.computeDepthBindGroup[3] # objects.computeDepthBindGroup[2]
    /\ objects.copyToIndexBufferBindGroup[1] # objects.copyToIndexBufferBindGroup[2]
    /\ pc = "depth" =>
           /\ \A s, r \in DepthStores : s[2] = r[2] => s[1] = r[1]
           /\ Cardinality(DispatchOutcomes(depthBuffer, nPadded, DepthStores,
                                           numThreads)) = 1
    /\ pc = "copy" =>
           /\ \A s, r \in CopyStores : s[2] = r[2] => s[1] = r[1]
           /\ Cardinality(DispatchOutcomes(indexBuffer, nElements * VertsPerQuad,
                                           CopyStores, numThreads)) = 1

\* C16: the projection and the expansion dispatch leave the permutation
\* buffer as it is, and the expansion leaves the depth buffer as it is.
SingleWriterStep ==
    /\ pc \in {"depth", "copy"} => indicesBuffer' = indicesBuffer
    /\ pc = "copy" => depthBuffer' = depthBuffer

C16_SingleWriterOfPermutation == [][SingleWriterStep]_vars

\* C16 witness: an expansion has completed and the permutation is still
\* what argsort made of the depth buffer
C16_Witness ==
    /\ pc = "done"
    /\ nElements = 3
    /\ indicesBuffer[0] # 0
    /\ indicesBuffer = argsort(depthBuffer, sorterN)

\* what a sort call on a fresh instance returns when its projection leaves
\* the depths d: six indices per rank, from argsort of d
FreshIndexBuffer(d) ==
    [j \in 0..(VertsPerQuad * nElements - 1) |->
        VertsPerQuad * argsort(d, sorterN)[j \div VertsPerQuad] + (j % VertsPerQuad)]

\* C17: the index buffer after sort(A); sort(M) equals the buffer a single
\* sort(M) leaves on a fresh instance with the same positions.
C17_NoCarryOver ==
    (pc = "done" /\ prevMatrix # MatZero) =>
        \A d \in DispatchOutcomes(ZeroBuffer(nPadded), nPadded, DepthStores,
                                  numThreads) :
            indexBuffer = FreshIndexBuffer(d)

====
